---- MODULE Spec2Model ----
(***************************************************************************)
(* Model of the POSIX HDLC interface to the radio co-processor             *)
(* (src/posix/platform/hdlc_interface.cpp): the channel's lifecycle        *)
(* (Init / Deinit), the send path (SendFrame / Write) and the receive path *)
(* (Read / Decode and the two decoder handlers).                           *)
(*                                                                         *)
(* Hdlc::Encoder and Hdlc::Decoder are used by this file but defined       *)
(* elsewhere in the repository; they are modelled from section 4.1 of the  *)
(* specification (flag 0x7E, escape 0x7D, mask 0x20, 16-bit frame check    *)
(* sequence sent low byte first).                                          *)
(*                                                                         *)
(* The build modelled is the one without OPENTHREAD_POSIX_VIRTUAL_TIME     *)
(* (Write performs real write() calls).                                    *)
(***************************************************************************)
EXTENDS Integers, Sequences, FiniteSets, TLC

(***************************************************************************)
(* Bounds of the model.                                                    *)
(***************************************************************************)
\* HdlcInterface::kMaxFrameSize, scaled down: size of the encoder buffer, of
\* the read buffer and of the decoder's receive buffer.
kMaxFrameSize == 8
\* Longest payload handed to SendFrame.
MaxPayloadLen == 4
\* Bytes the far end of the channel emits towards the host during one run.
MaxStream == 10
\* read() calls within one Process(): the host's own and those a listener
\* callback makes by calling Read() again.
MaxDepth == 2
\* Child processes alive and unreaped at the same time.
MaxChildren == 2

\* Payload bytes: two plain bytes, the flag, the escape and the mask value.
PayloadBytes == {1, 2, 32, 125, 126}
\* Line noise the far end may emit.
NoiseBytes == {85}
\* Descriptor numbers open() and forkpty() may hand out.
Fds == {3, 4}

RECURSIVE SeqsUpTo(_, _)
SeqsUpTo(S, n) ==
    IF n = 0 THEN {<<>>}
    ELSE LET shorter == SeqsUpTo(S, n - 1)
         IN  shorter \cup {Append(s, b) : s \in {t \in shorter : Len(t) = n - 1}, b \in S}

Payloads == SeqsUpTo(PayloadBytes, MaxPayloadLen)

(***************************************************************************)
(* Framing codec (Hdlc::Encoder, Hdlc::Decoder).                           *)
(***************************************************************************)
kFlagSequence == 126
kEscapeSequence == 125
kEscapeMask == 32
kInitFcs == 65535
kGoodFcs == 61624
kFcsPolynomial == 33800
kFcsSize == 2

RECURSIVE Xor(_, _)
Xor(a, b) ==
    IF a = 0 THEN b
    ELSE IF b = 0 THEN a
    ELSE (((a % 2) + (b % 2)) % 2) + 2 * Xor(a \div 2, b \div 2)

FcsBit(v) == IF v % 2 = 1 THEN Xor(v \div 2, kFcsPolynomial) ELSE v \div 2

FcsTable == [i \in 0..255 |->
               FcsBit(FcsBit(FcsBit(FcsBit(FcsBit(FcsBit(FcsBit(FcsBit(i))))))))]

\* The running checksum, advanced by one unescaped byte.
UpdateFcs(fcs, b) == Xor(fcs \div 256, FcsTable[Xor(fcs % 256, b)])

NeedsEscape(b) == b = kFlagSequence \/ b = kEscapeSequence

\* BufferWriteIterator over EncoderBuffer::mBuffer: the bytes written so far
\* and whether a write was refused for lack of room.
EncoderBuffer == [buf |-> <<>>, error |-> "NONE"]

CanWrite(w, n) == Len(w.buf) + n <= kMaxFrameSize

WriteByte(w, b) ==
    IF w.error # "NONE" THEN w
    ELSE IF CanWrite(w, 1) THEN [w EXCEPT !.buf = Append(@, b)]
    ELSE [w EXCEPT !.error = "NO_BUFS"]

\* One byte of the frame, escaped when it is a reserved value.
WriteStuffed(w, b) ==
    IF w.error # "NONE" THEN w
    ELSE IF NeedsEscape(b)
         THEN IF CanWrite(w, 2)
              THEN [w EXCEPT !.buf = @ \o <<kEscapeSequence, Xor(b, kEscapeMask)>>]
              ELSE [w EXCEPT !.error = "NO_BUFS"]
         ELSE WriteByte(w, b)

\* Encoder state: the output iterator and the running checksum.
EncoderInit(w) == [w |-> WriteByte(w, kFlagSequence), fcs |-> kInitFcs]

RECURSIVE EncoderEncode(_, _)
EncoderEncode(e, payload) ==
    IF payload = <<>> \/ e.w.error # "NONE" THEN e
    ELSE EncoderEncode([w   |-> WriteStuffed(e.w, Head(payload)),
                        fcs |-> UpdateFcs(e.fcs, Head(payload))],
                       Tail(payload))

EncoderFinalize(e) ==
    LET fcs == Xor(e.fcs, kInitFcs)
        w1  == WriteStuffed(e.w, fcs % 256)
        w2  == WriteStuffed(w1, fcs \div 256)
    IN  [e EXCEPT !.w = WriteByte(w2, kFlagSequence)]

\* Decoder state: the parse phase, the receive buffer (unescaped bytes, the
\* checksum bytes included) and the running checksum.
DecoderInit == [state |-> "Idle", buf |-> <<>>, fcs |-> kInitFcs]

NoEvent == [type |-> "none", kind |-> "NONE", payload |-> <<>>]
FrameEvent(payload) == [type |-> "frame", kind |-> "NONE", payload |-> payload]
ErrorEvent(kind, payload) == [type |-> "error", kind |-> kind, payload |-> payload]

\* An unescaped byte goes to the receive buffer of `size` bytes; with the
\* buffer full the frame is given up: overflow, back to Idle.
DecoderStore(d, b, size) ==
    IF Len(d.buf) < size
    THEN [dec |-> [state |-> "InFrame", buf |-> Append(d.buf, b), fcs |-> UpdateFcs(d.fcs, b)],
          ev  |-> NoEvent]
    ELSE [dec |-> DecoderInit, ev |-> ErrorEvent("overflow", d.buf)]

\* Mutant of DecoderFlag: a flag while InFrame always restarts the frame.
DecoderFlagRestarts(d) ==
    [dec |-> [DecoderInit EXCEPT !.state = "InFrame"], ev |-> NoEvent]

\* A flag while InFrame: with nothing accumulated it (re)starts the frame;
\* otherwise it closes the frame, which is delivered when its trailing
\* checksum validates and reported as a checksum mismatch when not.
DecoderFlag(d) ==
    IF d.buf = <<>>
    THEN [dec |-> [DecoderInit EXCEPT !.state = "InFrame"], ev |-> NoEvent]
    ELSE IF Len(d.buf) >= kFcsSize /\ d.fcs = kGoodFcs
    THEN [dec |-> DecoderInit,
          ev  |-> FrameEvent(SubSeq(d.buf, 1, Len(d.buf) - kFcsSize))]
    ELSE [dec |-> DecoderInit, ev |-> ErrorEvent("checksum", d.buf)]

\* Hdlc::Decoder, one byte.
DecodeByte(d, b, size) ==
    IF d.state = "Idle"
    THEN IF b = kFlagSequence
         THEN [dec |-> [DecoderInit EXCEPT !.state = "InFrame"], ev |-> NoEvent]
         ELSE [dec |-> d, ev |-> NoEvent]
    ELSE IF d.state = "Escaped"
    THEN DecoderStore(d, Xor(b, kEscapeMask), size)
    ELSE IF b = kFlagSequence
    THEN DecoderFlag(d)
    ELSE IF b = kEscapeSequence
    THEN [dec |-> [d EXCEPT !.state = "Escaped"], ev |-> NoEvent]
    ELSE DecoderStore(d, b, size)

\* Hdlc::Decoder::Decode over `bytes`, up to and including the first byte
\* that completes a frame (the frame handler then runs): the decoder state
\* reached, the events in order, the bytes not yet looked at.
RECURSIVE DecodeRun(_, _, _, _)
DecodeRun(d, bytes, size, evs) ==
    IF bytes = <<>>
    THEN [dec |-> d, evs |-> evs, rest |-> <<>>, called |-> FALSE]
    ELSE LET r == DecodeByte(d, Head(bytes), size)
         IN  IF r.ev.type = "frame"
             THEN [dec |-> r.dec, evs |-> Append(evs, r.ev), rest |-> Tail(bytes),
                   called |-> TRUE]
             ELSE DecodeRun(r.dec, Tail(bytes), size,
                            IF r.ev.type = "none" THEN evs ELSE Append(evs, r.ev))

\* The same over all of `bytes`, whatever completes on the way.
RECURSIVE DecodeAll(_, _, _, _)
DecodeAll(d, bytes, size, evs) ==
    IF bytes = <<>>
    THEN [dec |-> d, evs |-> evs]
    ELSE LET r == DecodeByte(d, Head(bytes), size)
         IN  DecodeAll(r.dec, Tail(bytes), size,
                       IF r.ev.type = "none" THEN evs ELSE Append(evs, r.ev))


(***************************************************************************)
(* State.                                                                  *)
(***************************************************************************)
VARIABLES
    pc,          \* where the host process is: "idle" (in its loop, between
                 \* calls), "write" (in Write's loop), "decode" (in Decode),
                 \* "callback" (in the listener, called by the decoder),
                 \* "returned" (a call just returned to it), "exited"
    exitStatus,  \* how the process ended ("none" while it runs)
    ptyEnabled,  \* OPENTHREAD_CONFIG_POSIX_APP_ENABLE_PTY_DEVICE of the build
    mSockFd,     \* HdlcInterface::mSockFd
    openFds,     \* descriptors the manager opened that are open in the process
    fdKind,      \* what mSockFd was opened on: "none", "chr", "pty"
    children,    \* child processes forked by ForkPty and not yet reaped
    escaped,     \* a forked child returned from ForkPty into the host's code
    initCall,    \* the Init call that just returned or ended the process: its
                 \* target, its configuration and the first step that failed
    lastOp,      \* the call that just returned ("none" once the host moved on)
    ret,         \* its result
    txPayload,   \* SendFrame's argument (aFrame, aLength)
    txBuf,       \* SendFrame's encoderBuffer
    txOff,       \* Write's aFrame, as an offset into txBuf
    txLen,       \* Write's aLength
    wire,        \* bytes the channel accepted during the SendFrame call
    txWrites,    \* write() calls made during the SendFrame call
    txLast,      \* what the last of them returned: "pos", "zero", "neg"
    rxLine,      \* bytes the far end sent that the host has not read yet
    mIsDecoding, \* HdlcInterface::mIsDecoding
    mHdlcDecoder,\* HdlcInterface::mHdlcDecoder (with mDecoderBuffer)
    rdStack,     \* per Decode() call in progress, outermost first: the bytes
                 \* of its buffer the decoder has not looked at yet
    rds,         \* the read() calls made since the host called Read()
    rxRead,      \* every byte read from the channel, in the order read
    events,      \* every call of a decoder handler (frame or error), in order
    delivered,   \* every notification the listener received, in order
    looped,      \* payloads of the complete frames the far end echoed
    dirty,       \* the far end sent something else than complete frames
    reentered    \* a listener callback called Read()

vars == <<pc, exitStatus, ptyEnabled, mSockFd, openFds, fdKind, children, escaped,
          initCall, lastOp, ret, txPayload, txBuf, txOff, txLen, wire, txWrites, txLast,
          rxLine, mIsDecoding, mHdlcDecoder, rdStack, rds, rxRead, events, delivered,
          looped, dirty, reentered>>

lifeVars == <<ptyEnabled, mSockFd, openFds, fdKind, children, escaped, initCall>>
txVars == <<txPayload, txBuf, txOff, txLen, wire, txWrites, txLast>>
\* The decoder and what the listener saw.
decVars == <<mIsDecoding, mHdlcDecoder, rdStack, rxRead, events, delivered, reentered>>
\* The far end of the channel.
farVars == <<rxLine, looped, dirty>>
rxVars == <<rxLine, mIsDecoding, mHdlcDecoder, rdStack, rds, rxRead, events, delivered,
            looped, dirty, reentered>>

\* No Init call to remember.
NoInitCall == [target |-> "none", config |-> "none", step |-> "none"]

\* HdlcInterface::HdlcInterface: no descriptor, not decoding, a decoder in
\* its initial state over mDecoderBuffer.
Init ==
    /\ pc = "idle"
    /\ exitStatus = "none"
    /\ ptyEnabled \in BOOLEAN
    /\ mSockFd = -1
    /\ openFds = {}
    /\ fdKind = "none"
    /\ children = 0
    /\ escaped = FALSE
    /\ initCall = NoInitCall
    /\ lastOp = "none"
    /\ ret = "NONE"
    /\ txPayload = <<>>
    /\ txBuf = <<>>
    /\ txOff = 0
    /\ txLen = 0
    /\ wire = <<>>
    /\ txWrites = 0
    /\ txLast = "none"
    /\ rxLine = <<>>
    /\ mIsDecoding = FALSE
    /\ mHdlcDecoder = DecoderInit
    /\ rdStack = <<>>
    /\ rds = <<>>
    /\ rxRead = <<>>
    /\ events = <<>>
    /\ delivered = <<>>
    /\ looped = <<>>
    /\ dirty = FALSE
    /\ reentered = FALSE

\* The process ends (abort(), exit() or a failed assert).
Terminate(status) ==
    /\ pc' = "exited"
    /\ exitStatus' = status

\* A call returns to the host.
Return(op, error) ==
    /\ pc' = "returned"
    /\ lastOp' = op
    /\ ret' = error
    /\ UNCHANGED exitStatus

\* The host has looked at the result and goes back to its loop; the record
\* of the call is dropped.
Resume ==
    /\ pc = "returned"
    /\ pc' = "idle"
    /\ lastOp' = "none"
    /\ ret' = "NONE"
    /\ txPayload' = <<>>
    /\ wire' = <<>>
    /\ txWrites' = 0
    /\ txLast' = "none"
    /\ rds' = <<>>
    /\ initCall' = NoInitCall
    /\ UNCHANGED <<exitStatus, ptyEnabled, mSockFd, openFds, fdKind, children, escaped,
                   txBuf, txOff, txLen, decVars, farVars>>

(***************************************************************************)
(* Channel lifecycle: Init, OpenFile, ForkPty, Deinit.                     *)
(***************************************************************************)
\* What stat() finds at aRadioFile: nothing, a character device that is or
\* is not a terminal, a regular file, anything else.
Targets == {"missing", "chr_tty", "chr_notty", "regular", "directory"}

\* aRadioConfig as sscanf("%u%c%d") leaves speed, parity and cstopb.
Configs == {[speed |-> 115200, parity |-> "N", cstopb |-> 1],
            [speed |-> 9600,   parity |-> "E", cstopb |-> 2],
            [speed |-> 115200, parity |-> "X", cstopb |-> 1],
            [speed |-> 115200, parity |-> "O", cstopb |-> 3],
            [speed |-> 12345,  parity |-> "N", cstopb |-> 1]}

\* The rates of the switch on speed that every platform defines.
BaudRates == {9600, 19200, 38400, 57600, 115200}

\* Mutant of ConfigSupported: the default: branches of the switches fall through.
ConfigUnchecked(config) == TRUE

ConfigSupported(config) ==
    /\ config.parity \in {"N", "E", "O"}
    /\ config.cstopb \in {1, 2}
    /\ config.speed \in BaudRates

\* open() and forkpty() return the lowest descriptor that is free.
LowestFreeFd == CHOOSE fd \in Fds \ openFds : \A other \in Fds \ openFds : fd <= other

\* Mutant of InitGuard: Init without the check of mSockFd.
InitGuardMissing == TRUE

\* VerifyOrExit(mSockFd == -1, error = OT_ERROR_ALREADY)
InitGuard == mSockFd = -1

\* assert(false) followed by exit(OT_EXIT_INVALID_ARGUMENTS): the assert
\* aborts unless the build defines NDEBUG.
AssertFalseThenExit ==
    \E ndebug \in BOOLEAN :
        Terminate(IF ndebug THEN "OT_EXIT_INVALID_ARGUMENTS" ELSE "SIGABRT")

\* Init's tail once OpenFile or ForkPty returned a descriptor.
InitStore(fd, kind) ==
    /\ mSockFd' = fd
    /\ openFds' = openFds \cup {fd}
    /\ fdKind' = kind
    /\ Return("Init", "NONE")

\* Init's tail when OpenFile or ForkPty returned -1, or the target is refused.
InitFail ==
    /\ UNCHANGED <<mSockFd, openFds, fdKind>>
    /\ Return("Init", "INVALID_ARGS")

\* The Init call as remembered: `step` is the first step of it that failed.
InitCalled(target, config, step) ==
    initCall' = [target |-> target, config |-> config, step |-> step]

\* OpenFile, with `failing` the first system call of it that fails.
OpenFile(target, config) ==
    \E failing \in {"none", "open", "tcgetattr", "cfsetspeed", "tcsetattr", "tcflush"} :
        /\ UNCHANGED <<children, escaped>>
        /\ IF failing = "open"
           THEN InitFail /\ InitCalled(target, config, "open")
           ELSE IF target = "chr_notty"
           THEN /\ failing = "none"
                /\ InitStore(LowestFreeFd, "chr")
                /\ InitCalled(target, config, "none")
           ELSE IF failing = "tcgetattr"
           THEN /\ Terminate("OT_EXIT_FAILURE")
                /\ InitCalled(target, config, failing)
                /\ UNCHANGED <<mSockFd, openFds, fdKind, lastOp, ret>>
           ELSE IF ~ConfigSupported(config)
           THEN /\ AssertFalseThenExit
                /\ InitCalled(target, config, "config")
                /\ UNCHANGED <<mSockFd, openFds, fdKind, lastOp, ret>>
           ELSE IF failing # "none"
           THEN /\ Terminate("OT_EXIT_FAILURE")
                /\ InitCalled(target, config, failing)
                /\ UNCHANGED <<mSockFd, openFds, fdKind, lastOp, ret>>
           ELSE InitStore(LowestFreeFd, "chr") /\ InitCalled(target, config, "none")

\* Mutant of NonblockChecked: the result of fcntl is not looked at.
NonblockUnchecked == FALSE

\* if (rval == -1) { perror("set nonblock failed"); close(fd); fd = -1; }
NonblockChecked == TRUE

\* ForkPty: forkpty() may fail; the child sets up and execs, the parent marks
\* its side non-blocking.
ForkPty(target, config) ==
    \E forked \in BOOLEAN :
        IF ~forked
        THEN /\ InitFail
             /\ InitCalled(target, config, "forkpty")
             /\ UNCHANGED <<children, escaped>>
        ELSE /\ children < MaxChildren
             /\ children' = children + 1
             /\ \E child \in {"exec", "exec_failed", "setenv_failed", "cmd_too_long"} :
                    \* VerifyOrExit in the child branch jumps to exit: and
                    \* returns into Init, in the child.
                    escaped' = (escaped \/ child \in {"setenv_failed", "cmd_too_long"})
             /\ \E nonblock \in BOOLEAN :
                    /\ InitCalled(target, config, IF nonblock THEN "none" ELSE "nonblock")
                    /\ IF nonblock \/ ~NonblockChecked
                       THEN InitStore(LowestFreeFd, "pty")
                       ELSE InitFail

\* Mutant of InvalidTarget: anything stat() finds that is not a character
\* device is taken for a command to spawn.
InvalidTargetUnchecked(target) == target = "missing"

\* The targets Init refuses: stat() fails, or the file is neither a
\* character device nor, in a build with the pty device, a regular file.
InvalidTarget(target) ==
    \/ target = "missing"
    \/ /\ target \notin {"chr_tty", "chr_notty"}
       /\ ~(target = "regular" /\ ptyEnabled)

\* HdlcInterface::Init(aRadioFile, aRadioConfig) on one of `targets`.
InitOn(targets) ==
    /\ pc = "idle"
    /\ UNCHANGED <<ptyEnabled, txVars, rxVars>>
    /\ \E target \in targets, config \in Configs :
        IF ~InitGuard
        THEN /\ Return("Init", "ALREADY")
             /\ InitCalled(target, config, "guard")
             /\ UNCHANGED <<mSockFd, openFds, fdKind, children, escaped>>
        ELSE IF InvalidTarget(target)
        THEN /\ InitFail
             /\ InitCalled(target, config, IF target = "missing" THEN "stat" ELSE "type")
             /\ UNCHANGED <<children, escaped>>
        ELSE IF target \in {"chr_tty", "chr_notty"}
        THEN OpenFile(target, config)
        ELSE ForkPty(target, config)

HdlcInterfaceInit == InitOn(Targets)

\* wait(NULL) succeeds when there is a child to reap and no signal interrupts.
WaitReaps(waited) == children > 0 /\ waited

\* With the descriptor closed, what the far end had sent and the host had
\* not read is lost.
ChannelGone(gone) ==
    /\ rxLine' = IF gone THEN <<>> ELSE rxLine
    /\ dirty' = (dirty \/ (gone /\ rxLine # <<>>))

\* HdlcInterface::Deinit(). It returns nothing; `ret` records what it wrote
\* with perror(): "close NCP", "wait NCP" or nothing ("NONE").
Deinit ==
    /\ pc = "idle"
    /\ UNCHANGED <<ptyEnabled, escaped, initCall, txVars, decVars, rds, looped>>
    /\ \E ndebug \in BOOLEAN, closed \in BOOLEAN, released \in BOOLEAN, waited \in BOOLEAN :
        IF mSockFd = -1 /\ ~ndebug
        THEN \* assert(mSockFd != -1)
             /\ Terminate("SIGABRT")
             /\ UNCHANGED <<mSockFd, openFds, fdKind, children, lastOp, ret, rxLine, dirty>>
        ELSE IF mSockFd \notin openFds \/ ~closed
        THEN \* close() failed: EBADF on a descriptor that is not open, else
             \* EIO or EINTR, after which the descriptor may be gone or not.
             /\ openFds' = IF released THEN openFds \ {mSockFd} ELSE openFds
             /\ ChannelGone(mSockFd \in openFds /\ released)
             /\ UNCHANGED <<mSockFd, fdKind, children>>
             /\ Return("Deinit", "close NCP")
        ELSE /\ openFds' = openFds \ {mSockFd}
             /\ ChannelGone(TRUE)
             /\ IF WaitReaps(waited)
                THEN /\ children' = children - 1
                     /\ mSockFd' = -1
                     /\ fdKind' = "none"
                     /\ Return("Deinit", "NONE")
                ELSE \* wait() failed: ECHILD without a child, else EINTR.
                     /\ UNCHANGED <<mSockFd, fdKind, children>>
                     /\ Return("Deinit", "wait NCP")

(***************************************************************************)
(* Send path: SendFrame and Write.                                         *)
(***************************************************************************)
\* Init, Encode and Finalize in order; the first error is the one kept.
EncodeFrame(payload) ==
    EncoderFinalize(EncoderEncode(EncoderInit(EncoderBuffer), payload)).w

\* The encoder's output for every payload of the model.
EncodedFrames == [p \in Payloads |-> EncodeFrame(p)]

\* Mutant of GetLength: one byte short, the closing flag is not written.
GetLengthShort(w) == Len(w.buf) - 1

\* EncoderBuffer::GetLength
GetLength(w) == Len(w.buf)

\* Mutant of EncodeSucceeded: the encoder's error is ignored.
EncodeUnchecked(w) == TRUE

\* SuccessOrExit on the three encoder calls.
EncodeSucceeded(w) == w.error = "NONE"

\* The far end has not used up the bytes of this run.
StreamRoom(n) == Len(rxRead) + Len(rxLine) + n <= MaxStream

\* HdlcInterface::SendFrame(aFrame, aLength), up to the call of Write, for a
\* payload of `payloads`.
SendFrameOf(payloads) ==
    /\ pc = "idle"
    /\ StreamRoom(kMaxFrameSize)
    /\ UNCHANGED <<lifeVars, rxVars>>
    /\ \E payload \in payloads :
        /\ txPayload' = payload
        /\ wire' = <<>>
        /\ txWrites' = 0
        /\ txLast' = "none"
        /\ IF EncodeSucceeded(EncodedFrames[payload]) /\ GetLength(EncodedFrames[payload]) > 0
           THEN /\ txBuf' = EncodedFrames[payload].buf
                /\ txOff' = 0
                /\ txLen' = GetLength(EncodedFrames[payload])
                /\ pc' = "write"
                /\ UNCHANGED <<exitStatus, lastOp, ret>>
           ELSE /\ txBuf' = <<>>
                /\ txOff' = 0
                /\ txLen' = 0
                /\ Return("SendFrame", EncodedFrames[payload].error)

SendFrame == SendFrameOf(Payloads)

\* What write(mSockFd, aFrame, aLength) may return.
WriteResults == IF mSockFd \in openFds THEN {-1, 0} \cup (1..txLen) ELSE {-1}

\* Mutant of WriteAdvance: aFrame is not advanced after a short write.
WriteAdvanceStuck(off, rval) == off

\* aFrame += rval
WriteAdvance(off, rval) == off + rval

\* Mutant of WriteRemaining: aLength is not reduced by what was written.
WriteRemainingStuck(len, rval) == len

\* aLength -= rval
WriteRemaining(len, rval) == len - rval

\* Mutant of WriteFailedLeaves: a failed write is retried.
WriteFailedRetries == FALSE

\* ExitNow(error = OT_ERROR_FAILED) on rval < 0: the loop is left.
WriteFailedLeaves == TRUE

\* One iteration of Write's loop: one write() and what follows from its result.
Write ==
    /\ pc = "write"
    /\ UNCHANGED <<lifeVars, txPayload, rxVars>>
    /\ \E rval \in WriteResults :
        /\ txWrites' = txWrites + 1
        /\ txLast' = (IF rval > 0 THEN "pos" ELSE IF rval = 0 THEN "zero" ELSE "neg")
        /\ IF rval > 0
           THEN /\ wire' = wire \o SubSeq(txBuf, txOff + 1, txOff + rval)
                /\ IF WriteRemaining(txLen, rval) = 0
                   THEN /\ txBuf' = <<>>
                        /\ txOff' = 0
                        /\ txLen' = 0
                        /\ Return("SendFrame", "NONE")
                   ELSE /\ txOff' = WriteAdvance(txOff, rval)
                        /\ txLen' = WriteRemaining(txLen, rval)
                        /\ UNCHANGED <<pc, exitStatus, lastOp, ret, txBuf>>
           ELSE IF rval = 0 \/ WriteFailedLeaves
           THEN /\ txBuf' = <<>>
                /\ txOff' = 0
                /\ txLen' = 0
                /\ wire' = wire
                /\ Return("SendFrame", "FAILED")
           ELSE UNCHANGED <<pc, exitStatus, lastOp, ret, txBuf, txOff, txLen, wire>>

(***************************************************************************)
(* The far end of the channel.                                             *)
(***************************************************************************)
\* The far end echoes what SendFrame wrote: a complete frame, or the part
\* of one that was written before a write failed.
Loopback ==
    /\ pc = "returned"
    /\ lastOp = "SendFrame"
    /\ wire # <<>>
    /\ mSockFd \in openFds
    /\ StreamRoom(Len(wire))
    /\ rxLine' = rxLine \o wire
    /\ looped' = IF ret = "NONE" THEN Append(looped, txPayload) ELSE looped
    /\ dirty' = (dirty \/ ret # "NONE")
    /\ wire' = <<>>
    /\ UNCHANGED <<pc, exitStatus, lifeVars, lastOp, ret, txPayload, txBuf, txOff, txLen,
                   txWrites, txLast, decVars, rds>>

\* The far end emits a byte of noise.
Noise ==
    /\ pc = "idle"
    /\ mSockFd \in openFds
    /\ StreamRoom(1)
    /\ \E b \in NoiseBytes : rxLine' = Append(rxLine, b)
    /\ dirty' = TRUE
    /\ UNCHANGED <<pc, exitStatus, lifeVars, lastOp, ret, txVars, decVars, rds, looped>>

(***************************************************************************)
(* Receive path: Read, Decode, HandleHdlcFrame, HandleHdlcError.           *)
(***************************************************************************)
Min(a, b) == IF a < b THEN a ELSE b

\* What read(mSockFd, buffer, sizeof(buffer)) may return, with errno.
ReadResults ==
    IF mSockFd \notin openFds
    THEN {[rval |-> -1, errno |-> "EBADF"]}
    ELSE {[rval |-> -1, errno |-> "EIO"]}
         \cup (IF rxLine = <<>>
               THEN {[rval |-> -1, errno |-> "EAGAIN"], [rval |-> 0, errno |-> "NONE"]}
               ELSE {[rval |-> n, errno |-> "NONE"] : n \in 1..Min(Len(rxLine), kMaxFrameSize)})

\* Mutant of ReadAborts: errno is not looked at.
ReadAbortsOnAnyError(r) == r.rval < 0

\* if (rval < 0) { ... if (errno != EAGAIN) abort(); }
ReadAborts(r) == r.rval < 0 /\ r.errno # "EAGAIN"

\* if (rval > 0) Decode(buffer, rval)
ReadDecodes(r) == r.rval > 0

\* The bytes of the buffer handed to Decode.
ReadBuffer(r) == SubSeq(rxLine, 1, r.rval)

\* Read returns: to the host, or into the callback that called it.
ReadReturn ==
    IF rdStack = <<>>
    THEN Return("Read", "NONE")
    ELSE UNCHANGED <<pc, exitStatus, lastOp, ret>>

\* HdlcInterface::Read(), up to the call of Decode; called by the host or,
\* re-entrantly, by the listener from within a callback.
Read ==
    /\ pc \in {"idle", "callback"}
    /\ Len(rds) < MaxDepth
    /\ UNCHANGED <<lifeVars, txVars, mHdlcDecoder, events, delivered, looped, dirty>>
    /\ \E r \in ReadResults :
        /\ rds' = Append(rds, [rval |-> r.rval, errno |-> r.errno, decoding |-> mIsDecoding])
        /\ reentered' = (reentered \/ pc = "callback")
        /\ IF ReadAborts(r)
           THEN /\ Terminate("SIGABRT")
                /\ UNCHANGED <<lastOp, ret, rxLine, mIsDecoding, rdStack, rxRead>>
           ELSE IF ReadDecodes(r)
           THEN /\ mIsDecoding' = TRUE
                /\ rdStack' = Append(rdStack, ReadBuffer(r))
                /\ rxRead' = rxRead \o SubSeq(rxLine, 1, r.rval)
                /\ rxLine' = SubSeq(rxLine, r.rval + 1, Len(rxLine))
                /\ pc' = "decode"
                /\ UNCHANGED <<exitStatus, lastOp, ret>>
           ELSE /\ ReadReturn
                /\ UNCHANGED <<rxLine, mIsDecoding, rdStack, rxRead>>

\* HandleHdlcFrame: the listener's HandleReceivedFrame(aFrame, aFrameLength).
HandleHdlcFrame(ev) == <<[type |-> "frame", kind |-> "NONE", payload |-> ev.payload]>>

\* Mutant of HandleHdlcError: the error is passed on to the listener.
HandleHdlcErrorForwards(ev) == <<[type |-> "error", kind |-> ev.kind, payload |-> ev.payload]>>

\* HandleHdlcError: a log line, nothing for the listener.
HandleHdlcError(ev) == <<>>

\* What the listener receives for a sequence of decoder events.
RECURSIVE Dispatch(_)
Dispatch(evs) ==
    IF evs = <<>> THEN <<>>
    ELSE (IF Head(evs).type = "frame" THEN HandleHdlcFrame(Head(evs))
          ELSE HandleHdlcError(Head(evs)))
         \o Dispatch(Tail(evs))

\* Mutant of DecoderOf: Decode() starts from a decoder in its initial state.
DecoderFresh(d) == DecoderInit

\* The decoder Decode() runs: the member mHdlcDecoder, as it was left.
DecoderOf(d) == d

\* Mutant of DecoderBufferSize: the decoder is told its buffer is twice as
\* large.
DecoderBufferDouble == 2 * kMaxFrameSize

\* sizeof(mDecoderBuffer)
DecoderBufferSize == kMaxFrameSize

\* HdlcInterface::Decode(): mHdlcDecoder.Decode runs over the buffer until a
\* frame completes and the listener is called, or to the buffer's end, where
\* Decode clears mIsDecoding and Read returns.
Decode ==
    /\ pc = "decode"
    /\ UNCHANGED <<lifeVars, txVars, rxLine, rds, rxRead, looped, dirty, reentered>>
    /\ LET top == rdStack[Len(rdStack)]
           run == DecodeRun(DecoderOf(mHdlcDecoder), top, DecoderBufferSize, <<>>)
           below == SubSeq(rdStack, 1, Len(rdStack) - 1)
       IN  /\ mHdlcDecoder' = run.dec
           /\ events' = events \o run.evs
           /\ delivered' = delivered \o Dispatch(run.evs)
           /\ IF run.called
              THEN /\ rdStack' = Append(below, run.rest)
                   /\ pc' = "callback"
                   /\ UNCHANGED <<exitStatus, lastOp, ret, mIsDecoding>>
              ELSE /\ rdStack' = below
                   /\ mIsDecoding' = FALSE
                   /\ IF below = <<>>
                      THEN Return("Read", "NONE")
                      ELSE /\ pc' = "callback"
                           /\ UNCHANGED <<exitStatus, lastOp, ret>>

\* The listener's callback returns into the decoder's loop.
CallbackReturn ==
    /\ pc = "callback"
    /\ pc' = "decode"
    /\ UNCHANGED <<exitStatus, lifeVars, lastOp, ret, txVars, rxVars>>

(***************************************************************************)
(* Specifications.                                                         *)
(***************************************************************************)
\* The host opens and closes the channel, sends frames and polls a channel
\* on which nothing arrives.
Next ==
    \/ HdlcInterfaceInit
    \/ Deinit
    \/ SendFrame
    \/ Write
    \/ Read
    \/ Resume

Spec == Init /\ [][Next]_vars

\* The receive side: the channel is a character device whose far end echoes
\* what the host sends and adds noise; the host sends a few chosen payloads
\* and reads.
RxTargets == {"chr_notty"}
RxPayloads == {<<>>, <<1>>, <<125, 32>>, <<1, 126, 2>>} \cap Payloads

NextRx ==
    \/ InitOn(RxTargets)
    \/ Deinit
    \/ SendFrameOf(RxPayloads)
    \/ Write
    \/ Resume
    \/ Loopback
    \/ Noise
    \/ Read
    \/ Decode
    \/ CallbackReturn

\* The build without OPENTHREAD_CONFIG_POSIX_APP_ENABLE_PTY_DEVICE.
InitRx == Init /\ ~ptyEnabled

SpecRx == InitRx /\ [][NextRx]_vars

\* The send side alone, with the process scheduled: once in Write's loop
\* the next write() is eventually made.
NextTx ==
    \/ InitOn(RxTargets)
    \/ SendFrame
    \/ Write
    \/ Resume

SpecTx == InitRx /\ [][NextTx]_vars /\ WF_vars(Write)

\* The decoder under a damaged stream: the far end sends a frame that lost
\* its closing flag (an opening flag and n bytes, up to more than the receive
\* buffer holds) and then a well-formed frame; the host reads it in chunks.
Fill(n) == [i \in 1..n |-> CHOOSE b \in NoiseBytes : TRUE]
DecFrames == {p \in RxPayloads : EncodedFrames[p].error = "NONE"}
MaxFill == kMaxFrameSize + 2
DecStream(n, p) == <<kFlagSequence>> \o Fill(n) \o EncodedFrames[p].buf

FarEndSends ==
    /\ pc = "idle"
    /\ mSockFd \in openFds
    /\ rxLine = <<>>
    /\ rxRead = <<>>
    /\ \E n \in 0..MaxFill, p \in DecFrames : rxLine' = DecStream(n, p)
    /\ dirty' = TRUE
    /\ UNCHANGED <<pc, exitStatus, lifeVars, lastOp, ret, txVars, decVars, rds, looped>>

NextDec ==
    \/ InitOn(RxTargets)
    \/ FarEndSends
    \/ Read
    \/ Decode
    \/ CallbackReturn
    \/ Resume

SpecDec == InitRx /\ [][NextDec]_vars

(***************************************************************************)
(* Properties.                                                             *)
(***************************************************************************)
SendFrameReturned == pc = "returned" /\ lastOp = "SendFrame"

\* The encoded frame of the payload being sent.
TxFrame == EncodedFrames[txPayload].buf

\* What the listener receives when a decoder in its initial state is fed
\* `bytes` in one piece.
OneShot(bytes) == DecodeAll(DecoderInit, bytes, DecoderBufferSize, <<>>)

ReceivedFrame(payload) == [type |-> "frame", kind |-> "NONE", payload |-> payload]

\* C1: in Write's loop the bytes the channel has accepted are the first
\* txOff bytes of the encoded frame and the loop still holds the rest; a
\* write of a positive count that leaves the loop has sent the frame's last
\* byte, and SendFrame then returns success with the whole frame on the
\* channel, every byte once and in order.
C1_InLoop ==
    pc = "write" =>
        /\ txBuf = TxFrame
        /\ txOff + txLen = Len(TxFrame)
        /\ txLen > 0
        /\ wire = SubSeq(TxFrame, 1, txOff)

C1_Returned ==
    SendFrameReturned =>
        /\ ret = "NONE" => wire = TxFrame
        /\ txLast = "pos" => ret = "NONE"
        /\ ret = "FAILED" => Len(wire) < Len(TxFrame) /\ wire = SubSeq(TxFrame, 1, Len(wire))

C1_PartialWrites == C1_InLoop /\ C1_Returned

\* A frame sent in three writes or more.
C1_Witness ==
    /\ SendFrameReturned
    /\ ret = "NONE"
    /\ txWrites >= 3
    /\ Len(txPayload) = MaxPayloadLen
    /\ wire = TxFrame

\* C2: the manager's descriptor is the only one it has open, so at most one
\* channel is live; Init called with a live channel returns ALREADY, opens
\* no descriptor, forks no child and leaves mSockFd as it was.
C2_OneChannel ==
    /\ Cardinality(openFds) <= 1
    /\ openFds \subseteq {mSockFd}

C2_InitOnLive ==
    (pc = "idle" /\ mSockFd \in openFds /\ (lastOp' = "Init" \/ pc' = "exited")
        /\ rds' = rds /\ openFds' = openFds \cup {mSockFd'})
    => /\ pc' = "returned"
       /\ ret' = "ALREADY"
       /\ mSockFd' = mSockFd
       /\ openFds' = openFds
       /\ children' = children
       /\ fdKind' = fdKind

C2_ExclusiveChannel == []C2_OneChannel /\ [][C2_InitOnLive]_vars

C2_Witness ==
    /\ pc = "returned"
    /\ lastOp = "Init"
    /\ ret = "ALREADY"
    /\ mSockFd \in openFds

\* C3: when Deinit has returned without close() failing, the manager holds
\* no descriptor (mSockFd is -1) and none is open.
C3_CloseLeavesClosed ==
    (pc = "returned" /\ lastOp = "Deinit" /\ ret # "close NCP")
    => (mSockFd = -1 /\ openFds = {})

\* C4, as claimed: whenever no write failed, what SendFrame put on the
\* channel decodes to exactly one frame notification carrying the payload.
C4_AnyPayloadRoundTrips ==
    (SendFrameReturned /\ ret # "FAILED")
    => Dispatch(OneShot(wire).evs) = <<ReceivedFrame(txPayload)>>

\* C4, amended: when SendFrame returns success, the bytes it put on the
\* channel, fed to a decoder in its initial state, make the decoder call the
\* frame handler once with the payload and no error handler, and leave the
\* decoder in its initial state; a payload whose encoding does not fit the
\* encoder buffer puts nothing on the channel.
C4_RoundTrip ==
    SendFrameReturned =>
        /\ ret = "NONE" =>
              /\ OneShot(wire).evs = <<FrameEvent(txPayload)>>
              /\ Dispatch(OneShot(wire).evs) = <<ReceivedFrame(txPayload)>>
              /\ OneShot(wire).dec = DecoderInit
        /\ ret = "NO_BUFS" => wire = <<>>

C4_Witness ==
    /\ SendFrameReturned
    /\ ret = "NONE"
    /\ txPayload = <<1, 126, 2>>
    /\ wire = <<126, 1, 125, 94, 2, 214, 213, 126>>

\* C5: whenever the host is back in its loop and no callback has called
\* Read(), the decoder handlers were called, and the listener notified, as
\* if all the bytes read so far had been decoded in one piece by a decoder
\* in its initial state, and the decoder is in the state that leaves.
Quiescent == pc \in {"idle", "returned"}

C5_StreamingEquivalence ==
    (Quiescent /\ ~reentered) =>
        /\ events = OneShot(rxRead).evs
        /\ delivered = Dispatch(OneShot(rxRead).evs)
        /\ mHdlcDecoder = OneShot(rxRead).dec

\* A frame whose closing flag arrived in a read of its own.
C5_Witness ==
    /\ pc = "returned"
    /\ lastOp = "Read"
    /\ ~reentered
    /\ rds = <<[rval |-> 1, errno |-> "NONE", decoding |-> FALSE]>>
    /\ rxRead = EncodedFrames[<<1, 126, 2>>].buf
    /\ delivered = <<ReceivedFrame(<<1, 126, 2>>)>>

RECURSIVE FramesOf(_)
FramesOf(evs) ==
    IF evs = <<>> THEN <<>>
    ELSE (IF Head(evs).type = "frame" THEN <<ReceivedFrame(Head(evs).payload)>> ELSE <<>>)
         \o FramesOf(Tail(evs))

C7_NoReentrantRead ==
    /\ \A i \in DOMAIN rds : ~rds[i].decoding
    /\ Len(rdStack) <= 1

\* C8: a write() that returns a negative count ends the call: SendFrame
\* returns FAILED at once; and the host's loop never holds anything of a
\* frame: the encoder buffer and Write's position in it are gone when
\* SendFrame has returned.
C8_FailedStep ==
    (pc = "write" /\ txWrites' = txWrites + 1 /\ txLast' = "neg")
    => /\ pc' = "returned"
       /\ lastOp' = "SendFrame"
       /\ ret' = "FAILED"
       /\ wire' = wire

C8_NoLeftover ==
    /\ pc # "write" => (txBuf = <<>> /\ txOff = 0 /\ txLen = 0)
    /\ (SendFrameReturned /\ txLast = "neg") => ret = "FAILED"

C8_FailedWriteAbandons == []C8_NoLeftover /\ [][C8_FailedStep]_vars

\* A write failed after part of the frame had been sent.
C8_Witness ==
    /\ SendFrameReturned
    /\ ret = "FAILED"
    /\ txLast = "neg"
    /\ wire # <<>>
    /\ txWrites >= 2

\* C9: a read() asks for at most kMaxFrameSize bytes; on EAGAIN or 0 Read
\* returns and nothing is decoded; on any other negative result the process
\* aborts; on n > 0 the first n bytes of the channel, in order, are the
\* buffer Decode is given.
C9_ReadStep ==
    Len(rds') = Len(rds) + 1 =>
        LET r == rds'[Len(rds')]
            undisturbed == /\ mHdlcDecoder' = mHdlcDecoder
                           /\ events' = events
                           /\ delivered' = delivered
                           /\ rxLine' = rxLine
                           /\ rxRead' = rxRead
                           /\ rdStack' = rdStack
                           /\ mIsDecoding' = mIsDecoding
        IN  /\ r.rval <= kMaxFrameSize
            /\ (r.rval = 0 \/ (r.rval < 0 /\ r.errno = "EAGAIN")) =>
                  /\ undisturbed
                  /\ exitStatus' = "none"
                  /\ pc' = (IF pc = "idle" THEN "returned" ELSE pc)
            /\ (r.rval < 0 /\ r.errno # "EAGAIN") =>
                  /\ undisturbed
                  /\ pc' = "exited"
                  /\ exitStatus' = "SIGABRT"
            /\ r.rval > 0 =>
                  /\ r.rval <= Len(rxLine)
                  /\ rdStack' = Append(rdStack, SubSeq(rxLine, 1, r.rval))
                  /\ rxLine' = SubSeq(rxLine, r.rval + 1, Len(rxLine))
                  /\ rxRead' = rxRead \o SubSeq(rxLine, 1, r.rval)
                  /\ mHdlcDecoder' = mHdlcDecoder
                  /\ pc' = "decode"

\* One read() per call of Read(): a call that returns to the host without
\* a callback having called Read() has made one.
C9_OneRead ==
    (pc = "returned" /\ lastOp = "Read" /\ ~reentered) => Len(rds) = 1

C9_ReadClassified == []C9_OneRead /\ [][C9_ReadStep]_vars

\* A read that filled the whole buffer was handed to Decode.
C9_Witness ==
    /\ pc = "decode"
    /\ Len(rds) = 1
    /\ rds[1].rval = kMaxFrameSize
    /\ rdStack = <<SubSeq(rxRead, Len(rxRead) - kMaxFrameSize + 1, Len(rxRead))>>

\* C10: a payload whose encoding does not fit the encoder buffer makes
\* SendFrame return NO_BUFS without a single write(); and no SendFrame call
\* puts more than kMaxFrameSize bytes on the channel.
C10_BufferFullBeforeIo ==
    /\ Len(wire) <= kMaxFrameSize
    /\ (pc \in {"write", "returned"} /\ txPayload \in Payloads
           /\ (pc = "write" \/ lastOp = "SendFrame")
           /\ EncodedFrames[txPayload].error # "NONE")
       => /\ pc = "returned"
          /\ ret = "NO_BUFS"
          /\ txWrites = 0
          /\ wire = <<>>
    /\ (SendFrameReturned /\ ret = "NO_BUFS") => (txWrites = 0 /\ wire = <<>>)

C10_Witness ==
    /\ SendFrameReturned
    /\ ret = "NO_BUFS"
    /\ Len(txPayload) <= kMaxFrameSize
    /\ txWrites = 0

InitReturned == pc = "returned" /\ lastOp = "Init"

\* C11: a child forked by Init is unreaped exactly while the channel it
\* serves is live (it is reaped at Deinit, and none is left behind by an
\* Init that failed after the fork), and a wait() that failed was made for
\* a spawned channel only.
C11_ChildrenReaped ==
    /\ children = (IF mSockFd \in openFds /\ fdKind = "pty" THEN 1 ELSE 0)
    /\ (pc = "returned" /\ lastOp = "Deinit" /\ ret = "wait NCP") => fdKind = "pty"

\* C12: Deinit called on a manager without a live channel never returns to
\* the host: the assertion ends the process.
C12_DeinitStep ==
    (pc = "idle" /\ mSockFd \notin openFds) => lastOp' # "Deinit"

C12_CloseOnClosedAborts == [][C12_DeinitStep]_vars

\* C13: Init on a closed manager with a target that stat() cannot examine,
\* or that is neither a character device nor (in a build with the pty
\* device) a regular file, returns INVALID_ARGS, opens and forks nothing
\* and leaves mSockFd at -1, so that the guard of the next Init passes.
C13_InitStep ==
    (pc = "idle" /\ mSockFd = -1 /\ initCall' # initCall
        /\ ( \/ initCall'.target \in {"missing", "directory"}
             \/ (initCall'.target = "regular" /\ ~ptyEnabled) ))
    => /\ pc' = "returned"
       /\ lastOp' = "Init"
       /\ ret' = "INVALID_ARGS"
       /\ initCall'.step \in {"stat", "type"}
       /\ mSockFd' = -1
       /\ openFds' = openFds
       /\ children' = children
       /\ escaped' = escaped

C13_InvalidTarget == [][C13_InitStep]_vars

C13_Witness ==
    /\ InitReturned
    /\ ret = "INVALID_ARGS"
    /\ initCall.target = "directory"
    /\ initCall.step = "type"
    /\ ptyEnabled
    /\ mSockFd = -1

\* C16: no forked child ever returns from ForkPty into Init.
C16_ChildNeverReturns == ~escaped

\* C18: when forkpty() succeeded and marking the parent's side non-blocking
\* failed, Init returns an error (INVALID_ARGS) to the host, which keeps
\* running, the descriptor is closed and mSockFd is -1.
C18_NonblockFailure ==
    initCall.step = "nonblock" =>
        /\ InitReturned
        /\ exitStatus = "none"
        /\ ret = "INVALID_ARGS"
        /\ mSockFd = -1
        /\ openFds = {}
        /\ fdKind = "none"

C18_Witness ==
    /\ InitReturned
    /\ initCall.step = "nonblock"
    /\ initCall.target = "regular"
    /\ ret = "INVALID_ARGS"
    /\ children = 1

\* C19, as claimed: an Init that stopped at the line configuration ended
\* the process with the invalid-argument exit status.
C19_ExitsInvalidArguments ==
    (pc = "exited" /\ initCall.step = "config") => exitStatus = "OT_EXIT_INVALID_ARGUMENTS"

\* A line configuration every switch of OpenFile has a case for.
LineConfigKnown(config) ==
    /\ config.parity \in {"N", "E", "O"}
    /\ config.cstopb \in {1, 2}
    /\ config.speed \in {9600, 19200, 38400, 57600, 115200}

\* C19, amended: Init on a terminal returns success only when the parity,
\* the stop bits and the speed are supported and tcgetattr, cfsetspeed,
\* tcsetattr and tcflush all succeeded; an unsupported value ends the
\* process, by the failed assertion in a build with assertions and with the
\* invalid-argument exit status in a build without; a failed step ends it
\* with the failure exit status. No channel is live afterwards.
C19_TerminalConfigured ==
    /\ (InitReturned /\ ret = "NONE" /\ initCall.target = "chr_tty") =>
          /\ LineConfigKnown(initCall.config)
          /\ initCall.step = "none"
    /\ initCall.step = "config" =>
          /\ pc = "exited"
          /\ exitStatus \in {"OT_EXIT_INVALID_ARGUMENTS", "SIGABRT"}
          /\ initCall.target = "chr_tty"
          /\ mSockFd = -1
    /\ initCall.step \in {"tcgetattr", "cfsetspeed", "tcsetattr", "tcflush"} =>
          /\ pc = "exited"
          /\ exitStatus = "OT_EXIT_FAILURE"
          /\ mSockFd = -1
    /\ (initCall.target = "chr_tty" /\ ~LineConfigKnown(initCall.config) /\ pc # "exited") =>
          /\ InitReturned
          /\ ret \in {"ALREADY", "INVALID_ARGS"}
          /\ initCall.step \in {"guard", "open"}

\* An unsupported speed in a build without assertions.
C19_Witness ==
    /\ pc = "exited"
    /\ exitStatus = "OT_EXIT_INVALID_ARGUMENTS"
    /\ initCall.step = "config"
    /\ initCall.config.speed = 12345

\* C17: every write() of Write's loop either accepts some bytes and leaves
\* fewer to send, or ends the call; a write() that returns 0 or a negative
\* count ends it with FAILED; a call makes no more writes than the frame has
\* bytes, and a call that entered the loop returns.
C17_WriteStep ==
    (pc = "write" /\ txWrites' = txWrites + 1) =>
        \/ /\ pc' = "write"
           /\ txLast' = "pos"
           /\ 0 < txLen'
           /\ txLen' < txLen
        \/ /\ pc' = "returned"
           /\ lastOp' = "SendFrame"
           /\ txLast' \in {"zero", "neg"} => ret' = "FAILED"
           /\ txLast' = "pos" => ret' = "NONE"

C17_BoundedWrites == txWrites <= kMaxFrameSize

C17_SendFrameTerminates ==
    /\ [][C17_WriteStep]_vars
    /\ []C17_BoundedWrites
    /\ (pc = "write" ~> pc = "returned")

\* A write() that returned 0 after part of the frame had been sent.
C17_Witness ==
    /\ SendFrameReturned
    /\ ret = "FAILED"
    /\ txLast = "zero"
    /\ txWrites >= 3
    /\ wire # <<>>

\* The host has read the whole stream and is back in its loop; no callback
\* called Read().
StreamDecoded == Quiescent /\ ~reentered /\ rxLine = <<>>

\* C14: an opening flag followed by more bytes than the receive buffer
\* holds and no closing flag makes the decoder report exactly one overflow
\* error; the well-formed frame that follows is delivered to the listener
\* with its payload.
C14_OverflowResync ==
    StreamDecoded =>
        \A n \in (kMaxFrameSize + 1)..MaxFill, p \in DecFrames :
            rxRead = DecStream(n, p) =>
                /\ events = <<ErrorEvent("overflow", Fill(kMaxFrameSize)), FrameEvent(p)>>
                /\ delivered = <<ReceivedFrame(p)>>
                /\ mHdlcDecoder = DecoderInit

\* The overflow and the frame arrived in reads of their own.
C14_Witness ==
    /\ StreamDecoded
    /\ pc = "returned"
    /\ lastOp = "Read"
    /\ Len(events) = 2
    /\ events[1].kind = "overflow"
    /\ delivered = <<ReceivedFrame(<<1, 126, 2>>)>>
    /\ rxRead = DecStream(kMaxFrameSize + 1, <<1, 126, 2>>)
    /\ rds[1].rval < kMaxFrameSize

====
